---- MODULE Spec2Model ----
(***************************************************************************)
(* Lifecycle and shutdown coordination of flowchartsman/srv.               *)
(*                                                                         *)
(* Three variants of the coordinator live in the repository:               *)
(*   "global"   package-level Declare/AddJob/Serve   (srv.go, health.go)   *)
(*   "instance" Srv.Start / Srv.shutdownWatcher      (redislogger.go,      *)
(*              unnamed/part_013, jobs.go)                                 *)
(*   "init"     Init/Go/Wait with a background shutdownWatcher goroutine   *)
(*              (unnamed/part_012)                                         *)
(* A behaviour of the model is one process run of one variant.             *)
(*                                                                         *)
(* The health check handler (package internal/health) exists in two        *)
(* versions: with Start (used by the global variant) and with an AddCheck  *)
(* that dispatches at once (used by the instance variant).  Spec is the    *)
(* coordinator, RegSpec the registration of health checks, HealthSpec the  *)
(* handler at work.                                                        *)
(*                                                                         *)
(* Granularity: one action per handler body (a select case, a goroutine    *)
(* body between two blocking points).  A user function (job, shutdown      *)
(* handler) is two steps, its start and its return, because other          *)
(* goroutines run while it executes.  An OS interrupt is delivered to the  *)
(* signal channel in one step and received from it in another.             *)
(***************************************************************************)
EXTENDS Integers, Sequences, FiniteSets, TLC

\* Bounds of the model.
MaxHandlers == 3
MaxJobs == 2
MaxInterrupts == 2
MaxChecks == 2
MaxFailuresOpt == 2
MaxCallers == 2
MaxOutstanding == 2
MaxLateJobs == 2
MaxDeclares == 2

\* Program constants.
SignalDepth == 2
SigintDepth == 1
ExitOK == 0
ExitFail == 1
ExitForced == 130
\* Exit status of a Go program that ends with an unrecovered panic.
ExitPanic == 2
\* http.StatusOK, http.StatusServiceUnavailable.
StatusOK == 200
StatusServiceUnavailable == 503
\* defaultInterval, defaultTimeout of package health, in seconds.
DefaultInterval == 30
DefaultTimeout == 10
\* Interval and Timeout of the check in examples/health, in seconds.
ExampleInterval == 5
ExampleTimeout == 2

Variants == {"global", "instance", "init"}
\* What a shutdown handler does when it is run: return nil, return an error,
\* or panic.  The coordinator learns which only when the handler ends.
HandlerKinds == {"ok", "err", "panic"}
\* How a job function ends when it ends: it returns nil, returns an error,
\* or panics.  When it ends, and whether it ever does, is up to the function:
\* nothing in the runner enforces it.
JobKinds == {"nil", "err", "panic"}
\* A function that watches its context can also return the context's error,
\* context.Canceled: ctx.Err() once the lifecycle context is cancelled.
JobOutcomes == JobKinds \cup {"canceled"}
\* The outcomes errgroup takes for a failure: any non-nil error.
JobErrors == {"err", "canceled"}
\* IDs under which health checks are registered.
CheckIDs == {"a", "b"}
\* The ID under which SetFailed records its failure.
SrvID == "srv"
\* Values of HealthCheck.Interval and HealthCheck.Timeout, in seconds, as the
\* options Interval and Timeout leave them: 0 when the option is not given,
\* positive otherwise (the options reject values <= 0).
Durations == {0, ExampleTimeout, ExampleInterval}
\* Values of HealthCheck.MaxFailures as the option MaxFailures leaves it: 0
\* when the option is not given, positive otherwise; the smallest positive
\* value and a larger one.
MaxFailuresOpts == {0, 1, MaxFailuresOpt}
\* How one invocation of a check ends for runCheck: the function returned
\* nil, an error, or context.DeadlineExceeded; or the invocation's context
\* was done first, by its timeout, by cancellation of the lifecycle context,
\* or by Handler.Close; or the function panicked.
CheckOutcomes == {"nil", "err", "deadline", "timeout", "canceled", "closed",
                  "panic"}
\* How the function passed to UnavailableWhile ends.
FKinds == {"nil", "err", "panic"}
\* Goroutines of the program that call Started and UnavailableWhile.
Callers == 1..MaxCallers

VARIABLES
    variant,          \* which coordinator this run uses
    mpc,              \* position of the main goroutine
    wpc,              \* position of the coordinator (shutdownWatcher + shutdown)
    handlers,         \* srvShutdownHandlers / s.shutdownHandlers / shutdownHandlers:
                      \* per registered handler "none", or how its run ended
    jobSt,            \* srvJobs / jobs / functions passed to Go: per job
                      \* "idle", "running", or what it returned: "nil", "err"
    pusher,           \* srvPusher != nil
    notify,           \* os.Interrupt is routed to the signal channel
    sigBuf,           \* number of signals buffered in the signal channel
    sigG,             \* the goroutine that waits for interrupts
    egErr,            \* errgroup: index of the first job that failed, 0 if none
    egCtx,            \* errgroup's derived context is cancelled (global, instance)
    waiter,           \* the goroutine running  jobErrs <- eg.Wait()
    numJobs,          \* shutdownWatcher's local counter
    ctx,              \* the lifecycle context is cancelled
    cancelCalls,      \* number of calls of the lifecycle cancel function so far
    trigger,          \* the event that cancelled the lifecycle context
    chainStarts,      \* how many times the handler chain has been entered
    hIdx,             \* loop index of the handler chain (1-based)
    hPhase,           \* "top" of the loop body or "wait" for the handler started
    hRun,             \* handlers that are executing right now
    started,          \* handlers invoked so far, in invocation order
    skipped,          \* handlers logged as skipped
    didPanic,         \* didPanic / handlerPanicked
    normal,           \* shutdown()'s exit status flag
    waitErr,          \* Wait(): eg.Wait() returned a non-nil error
    shutdownComplete, \* channel shutdownComplete is closed
    exit,             \* <<>> while the process lives, <<code>> once it has exited
    nIntr,            \* interrupts sent to the process so far
    intrInChain,      \* interrupts sent while the handler chain was running
    hStarted,         \* health.Handler.started
    checks,           \* health.Handler.checks (handler with Start)
    status,           \* health.Handler.status: check ID -> checkStatus
    disp,             \* the dispatcher goroutines, in the order they were started
    hCause,           \* cause with which the handler's context was cancelled
    streak,           \* per ID: failed invocations recorded since the last
                      \* recorded success
    recovered,        \* "health check has recovered" has been logged
    orphaned,         \* a check function is still running although the
                      \* runCheck that called it has returned
    startupStarted,   \* StartupHandler.started
    termlogCloseCalls,\* calls of termlogClose() / closeTermlog() so far
    isReady,          \* readinessHandler.isReady
    isClosed,         \* readinessHandler.isClosed
    outstanding,      \* readinessHandler.outstanding
    rpc,              \* per caller: "idle", "store" (in setReady between its
                      \* Load and its Store), "f" (in UnavailableWhile, f runs)
    setReadyTrue,     \* calls of setReady() that have returned true
    lpc,              \* a goroutine that calls Serve / Start, AddJob or
                      \* AddShutdownHandler after the service was started:
                      \* "idle", or the call whose Lock() it is blocked in
    lateJobs,         \* jobs appended to s.jobs after Start() has begun
    didDeclare,       \* srv.go: didDeclare
    srvInfo,          \* srv.go: srvInfo, <<>> for nil
    serviceAttrs,     \* the values of the attribute "service" the logger in
                      \* srvlogger carries, in the order they were added
    rootHandler,      \* loglevelhandler.Handler.rootHandler: its level and
                      \* its overrideParent
    logHandlers,      \* loglevelhandler.Handler.handlers: name -> the same
    written           \* what RouteLevel wrote to the response of the last
                      \* request

vars == <<variant, mpc, wpc, handlers, jobSt, pusher, notify, sigBuf,
          sigG, egErr, egCtx, waiter, numJobs, ctx, cancelCalls, trigger,
          chainStarts, hIdx, hPhase, hRun, started, skipped, didPanic, normal, waitErr,
          shutdownComplete, exit, nIntr, intrInChain,
          hStarted, checks, status, disp, hCause, streak, recovered, orphaned,
          startupStarted, termlogCloseCalls, isReady, isClosed, outstanding,
          rpc, setReadyTrue, lpc, lateJobs, didDeclare, srvInfo, serviceAttrs,
          rootHandler, logHandlers, written>>

setupVars == <<handlers, pusher>>
jobVars == <<jobSt, egErr, egCtx, waiter, numJobs>>
sigVars == <<notify, sigBuf, sigG>>
chainVars == <<chainStarts, hIdx, hPhase, hRun, started, skipped, didPanic, normal>>
envVars == <<nIntr, intrInChain>>
healthVars == <<hStarted, checks, status, disp, hCause, streak, recovered,
                orphaned>>
readyVars == <<isReady, isClosed, outstanding, rpc, setReadyTrue>>
instrVars == <<startupStarted, termlogCloseCalls>>
lateVars == <<lpc, lateJobs>>
declVars == <<didDeclare, srvInfo, serviceAttrs>>
logVars == <<rootHandler, logHandlers, written>>
\* What the coordinator, the health handler and the readiness handler never
\* write.
apiVars == <<lateVars, declVars, logVars>>
\* Everything of the coordinator but the context, the count of cancel calls
\* and the exit code.
lifeVars == <<variant, mpc, wpc, setupVars, jobVars, sigVars, trigger,
              chainVars, waitErr, shutdownComplete, envVars, startupStarted,
              readyVars>>

Alive == exit = <<>>
IsShared == variant \in {"global", "instance"}
IsInit == variant = "init"
NumHandlers == Len(handlers)
Jobs == 1..Len(jobSt)
\* Handlers that have returned or panicked.
finished == {i \in 1..Len(handlers) : handlers[i] # "none"}
Range(s) == {s[i] : i \in 1..Len(s)}
AllJobsReturned == \A j \in Jobs : jobSt[j] \in {"nil"} \cup JobErrors
ChainRunning == wpc = "chain"

----
\* Construction: package init() (global, init variant) or New() (instance).
\* srvInit of the init variant calls setReady() unless the option
\* withStartup was given.
Init ==
    /\ variant \in Variants
    /\ mpc = "setup"
    /\ wpc = IF variant = "init" THEN "watch" ELSE "off"
    /\ handlers = <<>>
    /\ jobSt = <<>>
    /\ pusher = FALSE
    /\ notify = (variant = "init")
    /\ sigBuf = 0
    /\ sigG = IF variant = "init" THEN "first" ELSE "none"
    /\ egErr = 0
    /\ egCtx = FALSE
    /\ waiter = "none"
    /\ numJobs = 0
    /\ ctx = FALSE
    /\ cancelCalls = 0
    /\ trigger = "none"
    /\ chainStarts = 0
    /\ hIdx = 1
    /\ hPhase = "top"
    /\ hRun = {}
    /\ started = <<>>
    /\ skipped = {}
    /\ didPanic = FALSE
    /\ normal = TRUE
    /\ waitErr = FALSE
    /\ shutdownComplete = FALSE
    /\ exit = <<>>
    /\ nIntr = 0
    /\ intrInChain = 0
    /\ hStarted = FALSE
    /\ checks = <<>>
    /\ status = <<>>
    /\ disp = <<>>
    /\ hCause = "none"
    /\ streak = [id \in CheckIDs \cup {SrvID} |-> 0]
    /\ recovered = FALSE
    /\ orphaned = FALSE
    /\ startupStarted = FALSE
    /\ termlogCloseCalls = 0
    /\ isReady \in (IF variant = "init" THEN BOOLEAN ELSE {FALSE})
    /\ isClosed = FALSE
    /\ outstanding = 0
    /\ rpc = [p \in Callers |-> "idle"]
    /\ setReadyTrue = IF isReady THEN 1 ELSE 0
    /\ lpc = "idle"
    /\ lateJobs = 0
    /\ didDeclare = FALSE
    /\ srvInfo = <<>>
    /\ serviceAttrs = <<>>
    /\ rootHandler = [level |-> "info", overrideParent |-> FALSE]
    /\ logHandlers = <<>>
    /\ written = <<>>

----
\* Pure helpers translated from the code.

\* context.CancelFunc: the state of a context after its cancel function ran.
\* A second call finds the context already cancelled and changes nothing.
CancelFunc(done) == TRUE

\* runShutdownHandler without the panicked = true of its deferred function:
\* a panic is reported as an ordinary error.
RunShutdownHandlerPanicAsError(kind) ==
    CASE kind = "ok" -> <<FALSE, FALSE>>
      [] kind = "err" -> <<FALSE, TRUE>>
      [] kind = "panic" -> <<FALSE, TRUE>>

\* runShutdownHandler reporting every failure as a panic.
RunShutdownHandlerErrorAsPanic(kind) ==
    CASE kind = "ok" -> <<FALSE, FALSE>>
      [] kind = "err" -> <<TRUE, TRUE>>
      [] kind = "panic" -> <<TRUE, TRUE>>

\* runShutdownHandler: <<panicked, err # nil>> for a handler of this kind.
\* The deferred recover() turns a panic into panicked = true and a non-nil err.
RunShutdownHandler(kind) ==
    CASE kind = "ok" -> <<FALSE, FALSE>>
      [] kind = "err" -> <<FALSE, TRUE>>
      [] kind = "panic" -> <<TRUE, TRUE>>

\* The goroutine shutdownWatcher (init variant) starts per handler: its
\* deferred recover() sets handlerPanicked; a returned error is only logged.
WatcherRecover(kind) == kind = "panic"

\* The loop without its wg.Wait().
WgWaitMissing(i) == TRUE

\* wg.Wait() of the init variant's shutdownWatcher: blocks until the handler
\* goroutine of this iteration has called wg.Done().
WgWait(i) == i \notin hRun

\* An eg.Wait() that returns as soon as one function has returned.
EgWaitAnyReturned == \E j \in Jobs : jobSt[j] \in {"nil"} \cup JobErrors

\* eg.Wait() has returned: it blocks until every function started with
\* eg.Go has returned, also after one of them has failed.
EgWaitDone == AllJobsReturned

\* A coordinator that keeps selecting while the chain runs.
InSelectWhileChain == wpc \in {"watch", "chain"}

\* The coordinator is blocked in its select (global, instance: the for/select
\* loop of shutdownWatcher) or in <-srvCtx.Done() (init).
InSelect == wpc = "watch"

\* The handler loop is entered: it ranges over the handlers from the first.
EnterChain ==
    /\ wpc' = "chain"
    /\ chainStarts' = chainStarts + 1
    /\ hIdx' = 1
    /\ hPhase' = "top"

\* Result of srvPusher.Add() when a pusher is configured: either outcome.
PushOutcomes == IF pusher THEN BOOLEAN ELSE {TRUE}

\* Capacity of the channel os.Interrupt is delivered to.
SigCap == IF IsShared THEN SignalDepth ELSE SigintDepth

\* shutdown() entered with the call of srvCancel() left for later.
LeaveRunningCancelLate(t) ==
    /\ trigger' = t
    /\ ctx' = ctx
    /\ cancelCalls' = cancelCalls
    /\ EnterChain

\* break EVENTS; srvCancel(); shutdown(): the coordinator leaves the select
\* loop because of event t, cancels the lifecycle context and enters the chain.
LeaveRunning(t) ==
    /\ trigger' = t
    /\ ctx' = CancelFunc(ctx)
    /\ cancelCalls' = cancelCalls + 1
    /\ EnterChain

----
\* Registration, before the service is started.

\* AddShutdownHandler / Srv.AddShutdownHandlers / AddShutdownHandler (init).
AddShutdownHandler ==
    /\ Alive
    /\ mpc = "setup"
    /\ wpc \in {"off", "watch"}
    /\ Len(handlers) < MaxHandlers
    /\ handlers' = Append(handlers, "none")
    /\ UNCHANGED <<apiVars, healthVars, readyVars, instrVars, variant, mpc, wpc, pusher, jobVars, sigVars, ctx,
                   cancelCalls, trigger, chainVars, waitErr, shutdownComplete,
                   exit, envVars>>

\* AddJob / Srv.AddJobs: the job is kept until Serve / Start runs it.
AddJob ==
    /\ Alive
    /\ IsShared
    /\ mpc = "setup"
    /\ Len(jobSt) < MaxJobs
    /\ jobSt' = Append(jobSt, "idle")
    /\ UNCHANGED <<apiVars, healthVars, readyVars, instrVars, variant, mpc, wpc, handlers, pusher, egErr, egCtx, waiter,
                   numJobs, sigVars, ctx, cancelCalls, trigger, chainVars,
                   waitErr, shutdownComplete, exit, envVars>>

\* Go / Run (init variant): eg.Go starts the function at once with srvCtx.
Go ==
    /\ Alive
    /\ IsInit
    /\ mpc = "setup"
    /\ Len(jobSt) < MaxJobs
    /\ jobSt' = Append(jobSt, "running")
    /\ UNCHANGED <<apiVars, healthVars, readyVars, instrVars, variant, mpc, wpc, handlers, pusher, egErr, egCtx, waiter,
                   numJobs, sigVars, ctx, cancelCalls, trigger, chainVars,
                   waitErr, shutdownComplete, exit, envVars>>

\* instance.Start() up to s.startupHandler.SetStarted(): signal.Notify on a
\* channel of depth 2, the routes, then the startup handler is told that the
\* service has started.  The jobs are started after that.
SetStarted ==
    /\ Alive
    /\ variant = "instance"
    /\ mpc = "setup"
    /\ mpc' = "starting"
    /\ notify' = TRUE
    /\ startupStarted' = TRUE
    /\ UNCHANGED <<apiVars, healthVars, readyVars, termlogCloseCalls, variant, wpc,
                   setupVars, jobVars, sigBuf, sigG, ctx, cancelCalls, trigger,
                   chainVars, waitErr, shutdownComplete, exit, envVars>>

\* StartupHandler.ServeHTTP: the status /startupz answers with.
StartupServeHTTP ==
    IF startupStarted THEN StatusOK ELSE StatusServiceUnavailable

\* serve() / the rest of instance.Start(): the pusher is created when a push
\* URL is configured, signal.Notify on a channel of depth 2 (global), every
\* job started under one errgroup, the goroutine  jobErrs <- eg.Wait()
\* started when there is at least one job, then shutdownWatcher entered.
Serve ==
    /\ Alive
    /\ IsShared
    /\ mpc = IF variant = "instance" THEN "starting" ELSE "setup"
    /\ mpc' = "serving"
    /\ notify' = TRUE
    /\ jobSt' = [j \in Jobs |-> "running"]
    /\ waiter' = IF Len(jobSt) > 0 THEN "waiting" ELSE "none"
    /\ numJobs' = Len(jobSt)
    /\ wpc' = "watch"
    /\ pusher' \in BOOLEAN
    /\ UNCHANGED <<apiVars, healthVars, readyVars, instrVars, variant, handlers, sigBuf, sigG, egErr, egCtx, ctx,
                   cancelCalls, trigger, chainVars, waitErr, shutdownComplete,
                   exit, envVars>>

----
\* The job runner.

\* A job function ends.  errgroup records the first non-nil error and
\* cancels the group's context at that moment.  In the init variant that
\* context is srvCtx itself, so the failure cancels the lifecycle context.
\* The functions handed to eg.Go have no recover(): a panic in a job ends
\* the process.
JobReturn(j, k) ==
    /\ Alive
    /\ jobSt[j] = "running"
    /\ k = "canceled" => ctx
    /\ exit' = IF k = "panic" THEN <<ExitPanic>> ELSE exit
    /\ LET failed == k \in JobErrors
           first == failed /\ egErr = 0
       IN  /\ jobSt' = [jobSt EXCEPT ![j] = k]
           /\ egErr' = IF first THEN j ELSE egErr
           /\ egCtx' = IF first /\ IsShared THEN CancelFunc(egCtx) ELSE egCtx
           /\ ctx' = IF first /\ IsInit THEN CancelFunc(ctx) ELSE ctx
           /\ cancelCalls' = IF first /\ IsInit THEN cancelCalls + 1 ELSE cancelCalls
           /\ trigger' = IF first /\ IsInit /\ trigger = "none" THEN "job" ELSE trigger
    /\ UNCHANGED <<apiVars, healthVars, readyVars, instrVars, variant, mpc, wpc,
                   setupVars, waiter, numJobs, sigVars, chainVars, waitErr,
                   shutdownComplete, envVars>>

----
\* shutdownWatcher of the global and the instance variant: one select over
\* the job-result channel, the signal channel and the lifecycle context.
\* Nothing but the watcher itself cancels that context in these variants, so
\* the case <-srvCtx.Done() can never be taken and has no action here.

\* case err := <-jobErrs.  The channel is unbuffered: the goroutine running
\* jobErrs <- eg.Wait() hands over its value when eg.Wait() has returned,
\* which is when every job has returned, and the watcher is in the select.
WatcherJobErr ==
    /\ Alive
    /\ InSelect
    /\ IsShared
    /\ waiter = "waiting"
    /\ EgWaitDone
    /\ waiter' = "sent"
    /\ IF egErr # 0
         THEN /\ LeaveRunning("job")
              /\ UNCHANGED numJobs
         ELSE /\ numJobs' = numJobs - 1
              /\ IF numJobs' = 0
                   THEN LeaveRunning("job")
                   ELSE UNCHANGED <<trigger, ctx, cancelCalls, wpc,
                                    chainStarts, hIdx, hPhase>>
    /\ UNCHANGED <<apiVars, healthVars, readyVars, instrVars, variant, mpc, setupVars, jobSt, egErr, egCtx, sigVars,
                   hRun, started, skipped, didPanic, normal, waitErr,
                   shutdownComplete, exit, envVars>>

\* The signal case without the goroutine that handles a second signal.
WatcherSignalNoForce ==
    /\ Alive
    /\ InSelect
    /\ IsShared
    /\ sigBuf > 0
    /\ sigBuf' = sigBuf - 1
    /\ notify' = FALSE
    /\ sigG' = sigG
    /\ LeaveRunning("signal")
    /\ UNCHANGED <<apiVars, healthVars, readyVars, instrVars, variant, mpc, setupVars, jobVars, hRun, started, skipped,
                   didPanic, normal, waitErr, shutdownComplete, exit, envVars>>

\* case <-signals: signal.Reset(os.Interrupt) gives SIGINT back to the
\* runtime's default disposition, and a goroutine is started that exits
\* with 130 when it receives another signal from the channel.
WatcherSignal ==
    /\ Alive
    /\ InSelect
    /\ IsShared
    /\ sigBuf > 0
    /\ sigBuf' = sigBuf - 1
    /\ notify' = FALSE
    /\ sigG' = "second"
    /\ LeaveRunning("signal")
    /\ UNCHANGED <<apiVars, healthVars, readyVars, instrVars, variant, mpc, setupVars, jobVars, hRun, started, skipped,
                   didPanic, normal, waitErr, shutdownComplete, exit, envVars>>

\* The goroutine waiting for a second signal receives one: os.Exit(130).
\* In the init variant this is the second receive of init()'s goroutine.
ForcedExit ==
    /\ Alive
    /\ sigG = "second"
    /\ sigBuf > 0
    /\ sigBuf' = sigBuf - 1
    /\ exit' = <<ExitForced>>
    /\ UNCHANGED <<apiVars, healthVars, readyVars, instrVars, variant, mpc, wpc, setupVars, jobVars, notify, sigG, ctx,
                   cancelCalls, trigger, chainVars, waitErr, shutdownComplete,
                   envVars>>

\* The operating system sends SIGINT.  While os/signal routes it to the
\* channel the send is non-blocking: a full channel drops the signal.  When
\* it is not routed (before signal.Notify, after signal.Reset) the Go
\* runtime's default disposition ends the process at once; its status is
\* that of a process killed by SIGINT, which is what 130 stands for.
Interrupt ==
    /\ Alive
    /\ nIntr < MaxInterrupts
    /\ nIntr' = nIntr + 1
    /\ intrInChain' = IF ChainRunning THEN intrInChain + 1 ELSE intrInChain
    /\ IF notify
         THEN /\ sigBuf' = IF sigBuf < SigCap THEN sigBuf + 1 ELSE sigBuf
              /\ UNCHANGED exit
         ELSE /\ exit' = <<ExitForced>>
              /\ UNCHANGED sigBuf
    /\ UNCHANGED <<apiVars, healthVars, readyVars, instrVars, variant, mpc, wpc, setupVars, jobVars, notify, sigG, ctx,
                   cancelCalls, trigger, chainVars, waitErr, shutdownComplete>>

----
\* The init variant: init()'s signal goroutine, shutdownWatcher, Wait.

\* First receive of init()'s goroutine: srvShutdown().
SigFirst ==
    /\ Alive
    /\ IsInit
    /\ sigG = "first"
    /\ sigBuf > 0
    /\ sigBuf' = sigBuf - 1
    /\ sigG' = "second"
    /\ ctx' = CancelFunc(ctx)
    /\ cancelCalls' = cancelCalls + 1
    /\ trigger' = IF trigger = "none" THEN "signal" ELSE trigger
    /\ UNCHANGED <<apiVars, healthVars, readyVars, instrVars, variant, mpc, wpc, setupVars, jobVars, notify, chainVars,
                   waitErr, shutdownComplete, exit, envVars>>

\* shutdownWatcher: <-srvCtx.Done() returns, the readiness handler is
\* closed, the chain begins.
WatcherCtxDone ==
    /\ Alive
    /\ IsInit
    /\ InSelect
    /\ ctx
    /\ isClosed' = TRUE
    /\ EnterChain
    /\ UNCHANGED <<apiVars, healthVars, isReady, outstanding, rpc, setReadyTrue,
                   instrVars, variant, mpc, setupVars, jobVars, sigVars, ctx, cancelCalls,
                   trigger, hRun, started, skipped, didPanic, normal, waitErr,
                   shutdownComplete, exit, envVars>>

\* Wait() is called: Started() calls setReady(), whose first step is
\* rh.isReady.Load().  When that gives true setReady returns false and Wait
\* goes on to block in eg.Wait().
CallWait ==
    /\ Alive
    /\ IsInit
    /\ mpc = "setup"
    /\ mpc' = IF isReady THEN "waitEg" ELSE "waitStore"
    /\ UNCHANGED <<apiVars, healthVars, readyVars, instrVars, variant, wpc, setupVars,
                   jobVars, sigVars, ctx, cancelCalls, trigger, chainVars,
                   waitErr, shutdownComplete, exit, envVars>>

\* setReady() called by Wait(): rh.isReady.Store(true); return true.
\* Started() logs "service has started", Wait blocks in eg.Wait().
WaitSetReady ==
    /\ Alive
    /\ IsInit
    /\ mpc = "waitStore"
    /\ isReady' = TRUE
    /\ setReadyTrue' = setReadyTrue + 1
    /\ mpc' = "waitEg"
    /\ UNCHANGED <<apiVars, healthVars, isClosed, outstanding, rpc, instrVars, variant,
                   wpc, setupVars, jobVars, sigVars, ctx, cancelCalls, trigger,
                   chainVars, waitErr, shutdownComplete, exit, envVars>>

\* eg.Wait() returns once every function has returned (at once when none
\* was started) and cancels the group's context; Wait() then calls
\* srvShutdown() and blocks on shutdownComplete.
EgWaitReturn ==
    /\ Alive
    /\ IsInit
    /\ mpc = "waitEg"
    /\ EgWaitDone
    /\ waitErr' = (egErr # 0)
    /\ ctx' = CancelFunc(CancelFunc(ctx))
    /\ cancelCalls' = cancelCalls + 2
    /\ trigger' = IF trigger = "none" THEN "job" ELSE trigger
    /\ mpc' = "waitComplete"
    /\ UNCHANGED <<apiVars, healthVars, readyVars, instrVars, variant, wpc, setupVars, jobVars, sigVars, chainVars,
                   shutdownComplete, exit, envVars>>

\* <-shutdownComplete returns: os.Exit(1) if eg.Wait() gave an error, else 0.
WaitExit ==
    /\ Alive
    /\ IsInit
    /\ mpc = "waitComplete"
    /\ shutdownComplete
    /\ exit' = <<IF waitErr THEN ExitFail ELSE ExitOK>>
    /\ UNCHANGED <<apiVars, healthVars, readyVars, instrVars, variant, mpc, wpc, setupVars, jobVars, sigVars, ctx,
                   cancelCalls, trigger, chainVars, waitErr, shutdownComplete,
                   envVars>>

----
\* The handler chain: shutdown() (global, instance) and the loop of
\* shutdownWatcher (init).

\* Loop body after a panic: the handler is logged as skipped, not run.
ChainSkip ==
    /\ Alive
    /\ wpc = "chain"
    /\ hPhase = "top"
    /\ hIdx <= NumHandlers
    /\ didPanic
    /\ skipped' = skipped \cup {hIdx}
    /\ hIdx' = hIdx + 1
    /\ UNCHANGED <<apiVars, healthVars, readyVars, instrVars, variant, mpc, wpc, setupVars, jobVars, sigVars, ctx,
                   cancelCalls, trigger, chainStarts, hPhase, hRun, started,
                   didPanic, normal, waitErr, shutdownComplete, exit, envVars>>

\* The handler of this iteration is invoked: called through
\* runShutdownHandler (global, instance) or in a goroutine of its own (init).
ChainStart ==
    /\ Alive
    /\ wpc = "chain"
    /\ hPhase = "top"
    /\ hIdx <= NumHandlers
    /\ ~didPanic
    /\ started' = Append(started, hIdx)
    /\ hRun' = hRun \cup {hIdx}
    /\ hPhase' = "wait"
    /\ UNCHANGED <<apiVars, healthVars, readyVars, instrVars, variant, mpc, wpc, setupVars, jobVars, sigVars, ctx,
                   cancelCalls, trigger, chainStarts, hIdx, skipped, didPanic,
                   normal, waitErr, shutdownComplete, exit, envVars>>

\* Handler i returns or panics.  Global, instance: didPanic, err =
\* runShutdownHandler(...), and err # nil clears normal.  Init: the deferred
\* recover() of the handler's goroutine sets handlerPanicked, then wg.Done().
HandlerReturn(i, k) ==
    /\ Alive
    /\ i \in hRun
    /\ hRun' = hRun \ {i}
    /\ handlers' = [handlers EXCEPT ![i] = k]
    /\ IF IsShared
         THEN LET r == RunShutdownHandler(k)
              IN  /\ didPanic' = r[1]
                  /\ normal' = IF r[2] THEN FALSE ELSE normal
         ELSE /\ didPanic' = (didPanic \/ WatcherRecover(k))
              /\ UNCHANGED normal
    /\ UNCHANGED <<apiVars, healthVars, readyVars, instrVars, variant, mpc, wpc, pusher, jobVars, sigVars, ctx,
                   cancelCalls, trigger, chainStarts, hIdx, hPhase, started,
                   skipped, waitErr, shutdownComplete, exit, envVars>>

\* The loop goes on to the next iteration: after the synchronous call has
\* returned (global, instance), after wg.Wait() (init).
ChainNext ==
    /\ Alive
    /\ wpc = "chain"
    /\ hPhase = "wait"
    /\ IF IsInit THEN WgWait(hIdx) ELSE hIdx \notin hRun
    /\ hIdx' = hIdx + 1
    /\ hPhase' = "top"
    /\ UNCHANGED <<apiVars, healthVars, readyVars, instrVars, variant, mpc, wpc, setupVars, jobVars, sigVars, ctx,
                   cancelCalls, trigger, chainStarts, hRun, started, skipped,
                   didPanic, normal, waitErr, shutdownComplete, exit, envVars>>

\* srvTermlogfile # nil: initTermLog keeps the file it opens in a local
\* variable and never assigns srvTermlogfile.
SrvTermlogfileSet == FALSE

\* How often the termination log file has been closed: termlogClose()
\* (global) closes srvTermlogfile if it is not nil, closeTermlog() (instance)
\* closes s.termination.
TermlogFileCloses ==
    IF variant = "global" /\ ~SrvTermlogfileSet THEN 0 ELSE termlogCloseCalls

\* End of shutdown(): the metrics push when a pusher is configured and the
\* termination-log line.  Global: os.Exit(0) or os.Exit(1) is deferred and
\* termlogClose() runs before it.  Instance: os.Exit is called at once, and
\* the s.closeTermlog() after it is never reached.
ShutdownExit ==
    /\ Alive
    /\ IsShared
    /\ wpc = "chain"
    /\ hPhase = "top"
    /\ hIdx > NumHandlers
    /\ \E pushOk \in PushOutcomes :
         /\ normal' = (normal /\ pushOk)
         /\ exit' = <<IF normal' THEN ExitOK ELSE ExitFail>>
    /\ termlogCloseCalls' = IF variant = "global"
                               THEN termlogCloseCalls + 1
                               ELSE termlogCloseCalls
    /\ wpc' = "done"
    /\ UNCHANGED <<apiVars, healthVars, readyVars, startupStarted, variant, mpc, setupVars, jobVars, sigVars, ctx, cancelCalls,
                   trigger, chainStarts, hIdx, hPhase, hRun, started, skipped,
                   didPanic, waitErr, shutdownComplete, envVars>>

\* End of shutdownWatcher (init): close(shutdownComplete).
CloseComplete ==
    /\ Alive
    /\ IsInit
    /\ wpc = "chain"
    /\ hPhase = "top"
    /\ hIdx > NumHandlers
    /\ shutdownComplete' = TRUE
    /\ wpc' = "done"
    /\ UNCHANGED <<apiVars, healthVars, readyVars, instrVars, variant, mpc, setupVars, jobVars, sigVars, ctx, cancelCalls,
                   trigger, chainVars, waitErr, exit, envVars>>

----
Next ==
    \/ AddShutdownHandler
    \/ AddJob
    \/ Go
    \/ SetStarted
    \/ Serve
    \/ \E j \in Jobs, k \in JobKinds : JobReturn(j, k)
    \/ WatcherJobErr
    \/ WatcherSignal
    \/ ForcedExit
    \/ Interrupt
    \/ SigFirst
    \/ WatcherCtxDone
    \/ CallWait
    \/ WaitSetReady
    \/ EgWaitReturn
    \/ WaitExit
    \/ ChainSkip
    \/ ChainStart
    \/ \E i \in 1..NumHandlers, k \in HandlerKinds : HandlerReturn(i, k)
    \/ ChainNext
    \/ ShutdownExit
    \/ CloseComplete

Spec == Init /\ [][Next]_vars

\* Init/Go/Wait with functions that return the error of their context when
\* it is cancelled.
WaitNext ==
    \/ AddShutdownHandler
    \/ Go
    \/ \E j \in Jobs, k \in JobOutcomes : JobReturn(j, k)
    \/ Interrupt
    \/ SigFirst
    \/ ForcedExit
    \/ WatcherCtxDone
    \/ CallWait
    \/ WaitSetReady
    \/ EgWaitReturn
    \/ WaitExit
    \/ ChainSkip
    \/ ChainStart
    \/ \E i \in 1..NumHandlers, k \in HandlerKinds : HandlerReturn(i, k)
    \/ ChainNext
    \/ CloseComplete

WaitSpec == Init /\ [][WaitNext]_vars

\* The Go scheduler runs every goroutine that can run, so each step of the
\* coordinator, of the signal goroutines and of Wait happens once it stays
\* possible.  Nothing makes a job function or a shutdown handler return, a
\* caller register or start anything, or the operating system send a signal.
Fairness ==
    /\ WF_vars(WatcherJobErr)
    /\ WF_vars(WatcherSignal)
    /\ WF_vars(ForcedExit)
    /\ WF_vars(SigFirst)
    /\ WF_vars(WatcherCtxDone)
    /\ WF_vars(variant = "instance" /\ Serve)
    /\ WF_vars(WaitSetReady)
    /\ WF_vars(EgWaitReturn)
    /\ WF_vars(WaitExit)
    /\ WF_vars(ChainSkip)
    /\ WF_vars(ChainStart)
    /\ WF_vars(ChainNext)
    /\ WF_vars(ShutdownExit)
    /\ WF_vars(CloseComplete)

FairSpec == Spec /\ Fairness

----
\* Calls made by another goroutine after the service was started (global,
\* instance).

\* srvMu / s.mu is locked.  Serve() and Start() lock it on entry and unlock
\* it in a deferred call, and they return only by ending the process.
MuHeld == IsShared /\ mpc \in {"starting", "serving"}

\* didServe / s.started.  didServe is set after serve() has returned, which
\* it never does; s.started is assigned nowhere.
DidServe == FALSE

\* A second call of Serve() / Start(): srvMu.Lock() / s.mu.Lock() comes
\* before the test of didServe / s.started, and the first call holds the
\* mutex.
SecondServe ==
    /\ Alive
    /\ MuHeld
    /\ lpc = "idle"
    /\ lpc' = "Serve"
    /\ UNCHANGED <<lifeVars, healthVars, termlogCloseCalls, ctx, cancelCalls,
                   exit, lateJobs, declVars, logVars>>

\* AddShutdownHandler / Srv.AddShutdownHandlers after the start: Lock()
\* comes first here too.
LateAddShutdownHandler ==
    /\ Alive
    /\ MuHeld
    /\ lpc = "idle"
    /\ lpc' = "AddShutdownHandler"
    /\ UNCHANGED <<lifeVars, healthVars, termlogCloseCalls, ctx, cancelCalls,
                   exit, lateJobs, declVars, logVars>>

\* AddJob / Srv.AddJobs after the start.  AddJob locks srvMu.  Srv.AddJobs
\* does not lock: it tests s.started, calls s.fatal if it is set and appends
\* to s.jobs otherwise.
LateAddJob ==
    /\ Alive
    /\ MuHeld
    /\ lpc = "idle"
    /\ IF variant = "global"
         THEN /\ lpc' = "AddJob"
              /\ UNCHANGED <<lateJobs, exit>>
         ELSE /\ lateJobs < MaxLateJobs
              /\ IF DidServe
                   THEN /\ exit' = <<ExitFail>>
                        /\ UNCHANGED lateJobs
                   ELSE /\ lateJobs' = lateJobs + 1
                        /\ UNCHANGED exit
              /\ UNCHANGED lpc
    /\ UNCHANGED <<lifeVars, healthVars, termlogCloseCalls, ctx, cancelCalls,
                   declVars, logVars>>

\* The service without shutdown handlers, started and called again.
StartNext ==
    \/ AddJob
    \/ SetStarted
    \/ Serve
    \/ \E j \in Jobs, k \in JobKinds : JobReturn(j, k)
    \/ WatcherJobErr
    \/ WatcherSignal
    \/ ForcedExit
    \/ Interrupt
    \/ ShutdownExit
    \/ SecondServe
    \/ LateAddShutdownHandler
    \/ LateAddJob

StartSpec == Init /\ [][StartNext]_vars

\* The coordinator's goroutines are scheduled; a goroutine blocked in Lock()
\* goes on when the mutex is unlocked, which no step does.
FairStartSpec ==
    /\ StartSpec
    /\ WF_vars(variant = "instance" /\ Serve)
    /\ WF_vars(WatcherJobErr)
    /\ WF_vars(WatcherSignal)
    /\ WF_vars(ForcedExit)
    /\ WF_vars(ShutdownExit)

----
\* Declare(serviceInfo) of the global variant.

\* buildinfo.Version: empty unless set with -ldflags at build time.
BuildinfoVersion == ""
\* Names the expression validName matches, and versions semverRx matches.
ValidNames == {"a", "b"}
SemVers == {"1.0.0"}
\* The ServiceInfo values Declare is called with.
ServiceInfos == [Name : {""} \cup ValidNames, System : {""},
                 Version : {"", "x"} \cup SemVers]

\* validateInfo: the error it returns, in the order of its tests.
validateInfo(s) ==
    IF s.Name = "" THEN "Name cannot be empty"
    ELSE IF s.Name \notin ValidNames THEN "Name is invalid"
    ELSE IF s.System # "" /\ s.System \notin ValidNames
      THEN "System name is invalid"
    ELSE IF s.Version # "" /\ s.Version \notin SemVers
      THEN "Version is invalid semver number"
    ELSE "nil"

\* Declare: a duplicate call is logged with sWarn and goes on; sFatal
\* (termlogClose(), os.Exit(1)) on a version given twice or an invalid
\* ServiceInfo; otherwise srvInfo is set and the logger in srvlogger is
\* replaced by one with the attribute "service" added.
Declare(serviceInfo) ==
    /\ Alive
    /\ variant = "global"
    /\ mpc = "setup"
    /\ Len(serviceAttrs) < MaxDeclares
    /\ LET conflict == BuildinfoVersion # "" /\ serviceInfo.Version # ""
           info == IF BuildinfoVersion # ""
                     THEN [serviceInfo EXCEPT !.Version = BuildinfoVersion]
                     ELSE serviceInfo
       IN  IF conflict \/ validateInfo(info) # "nil"
             THEN /\ exit' = <<ExitFail>>
                  /\ termlogCloseCalls' = termlogCloseCalls + 1
                  /\ UNCHANGED declVars
             ELSE /\ srvInfo' = <<info>>
                  /\ serviceAttrs' = Append(serviceAttrs, info)
                  /\ didDeclare' = TRUE
                  /\ UNCHANGED <<exit, termlogCloseCalls>>
    /\ UNCHANGED <<lifeVars, healthVars, ctx, cancelCalls, lateVars, logVars>>

\* The calls a main() makes before Serve().
DeclareNext ==
    \/ \E serviceInfo \in ServiceInfos : Declare(serviceInfo)
    \/ AddShutdownHandler
    \/ AddJob

DeclareSpec == Init /\ [][DeclareNext]_vars

----
\* The log level route of package loglevelhandler.

Levels == {"debug", "info", "warn", "error"}
\* Names under which loggers are added, and the name of no logger: the root.
LoggerNames == {"db"}
RootName == ""
Methods == {"GET", "POST", "PUT"}
\* The query parameter override: not given, or its text.
OverrideParams == {"absent", "true", "false", "maybe"}
\* Request bodies, and how reading the body ends.
Bodies == {"debug", "INFO", "warn", "error", "trace"}
ReadErrs == {"nil", "MaxBytesError", "other"}

\* strconv.ParseBool on the texts above: whether it succeeds.
ParseBoolOK(q) == q \in {"true", "false"}
\* strings.ToLower on the bodies above.
ToLower(b) == IF b = "INFO" THEN "info" ELSE b

\* AddLogHandler(lh): lh comes with its own level and overrideParent.
AddLogHandler(name, level, overrideParent) ==
    /\ Alive
    /\ variant = "global"
    /\ name \notin DOMAIN logHandlers
    /\ logHandlers' = [n \in DOMAIN logHandlers \cup {name} |->
                          IF n = name
                            THEN [level |-> level,
                                  overrideParent |-> overrideParent]
                            ELSE logHandlers[n]]
    /\ UNCHANGED <<lifeVars, healthVars, termlogCloseCalls, ctx, cancelCalls,
                   exit, lateVars, declVars, rootHandler, written>>

\* SetLevel(newLevel, overrideParent) on a handler.
SetLevel(h, newLevel, overrideParent) ==
    [level |-> newLevel, overrideParent |-> overrideParent]

\* RouteLevel: what it writes to the response, and the level and override
\* it hands to SetLevel if it gets that far.
RouteLevelResult(target, isRoot, method, q, body, readErr) ==
    LET hasOverride == q # "absent"
        override == q = "true"
        pre == IF hasOverride /\ isRoot
                 THEN <<"override not supported for root logger">>
                 ELSE <<>>
        newLevel == ToLower(body)
        none(w) == [written |-> w, set |-> FALSE, level |-> target.level,
                    override |-> target.overrideParent]
    IN  IF method = "GET" THEN none(<<"json">>)
        ELSE IF method # "POST" THEN none(<<"Method Not Allowed">>)
        ELSE IF hasOverride /\ ~ParseBoolOK(q)
          THEN none(<<"override param must be boolean">>)
        ELSE IF readErr = "MaxBytesError"
          THEN none(pre \o <<"Request Entity Too Large">>)
        ELSE IF readErr # "nil"
          THEN none(pre \o <<"Internal Server Error">>)
        ELSE IF newLevel \notin Levels
          THEN none(pre \o <<"invalid level">>)
        ELSE IF target.level = newLevel /\ target.overrideParent = override
          THEN none(pre \o <<"no change">>)
        ELSE [written |-> pre \o <<"OK">>, set |-> TRUE, level |-> newLevel,
              override |-> override]

\* RouteLevel serves one request.
RouteLevel(loggerName, method, q, body, readErr) ==
    /\ Alive
    /\ variant = "global"
    /\ IF loggerName # RootName /\ loggerName \notin DOMAIN logHandlers
         THEN /\ written' = <<"no such logger">>
              /\ UNCHANGED <<rootHandler, logHandlers>>
         ELSE LET isRoot == loggerName = RootName
                  target == IF isRoot THEN rootHandler
                            ELSE logHandlers[loggerName]
                  r == RouteLevelResult(target, isRoot, method, q, body,
                                        readErr)
                  new == IF r.set THEN SetLevel(target, r.level, r.override)
                         ELSE target
              IN  /\ written' = r.written
                  /\ rootHandler' = IF isRoot THEN new ELSE rootHandler
                  /\ logHandlers' =
                         IF isRoot THEN logHandlers
                         ELSE [logHandlers EXCEPT ![loggerName] = new]
    /\ UNCHANGED <<lifeVars, healthVars, termlogCloseCalls, ctx, cancelCalls,
                   exit, lateVars, declVars>>

LevelNext ==
    \/ \E name \in LoggerNames, level \in Levels, o \in BOOLEAN :
          AddLogHandler(name, level, o)
    \/ \E loggerName \in {RootName} \cup LoggerNames, method \in Methods,
          q \in OverrideParams, body \in Bodies, readErr \in ReadErrs :
          RouteLevel(loggerName, method, q, body, readErr)

LevelSpec == Init /\ [][LevelNext]_vars

----
\* The health check handler of package internal/health.  The global variant
\* uses the handler with Start: AddCheck collects the checks and Start gives
\* each a status entry and a dispatcher.  The instance variant uses the
\* handler whose AddCheck does both at once.  The init variant has neither.
\* The handler's context is a child of the lifecycle context.

HasStart == variant = "global"
\* h.ctx.Done() is closed.
HDone == hCause # "none"

\* The checkStatus a check starts with.
NewCheckStatus(m) == [Failures |-> 0, MaxFailures |-> m, Err |-> "nil"]

\* The error AddCheck returns, in the order of its tests.
AddCheckErr(id, iv, to) ==
    IF HDone THEN "closed"
    ELSE IF iv <= to THEN "interval"
    ELSE IF id \in DOMAIN status THEN "duplicate"
    ELSE "nil"

\* The defaults AddCheck applies after its tests.
EffectiveInterval(iv) == IF iv > 0 THEN iv ELSE DefaultInterval
EffectiveTimeout(to) == IF to > 0 THEN to ELSE DefaultTimeout
EffectiveMaxFailures(mf) == IF HasStart /\ mf < 0 THEN 1 ELSE mf

\* go h.dispatcher(ID, Fn, interval, timeout)
NewDispatcher(id, iv, to) ==
    [ID |-> id, Interval |-> iv, Timeout |-> to, st |-> "tick"]

\* AddHealthCheck(ID, fn, options...) and the AddCheck it ends in.  The
\* package-level AddHealthCheck of the global variant ends the process with
\* sFatal (termlogClose(), os.Exit(1)) when AddCheck returns an error;
\* Srv.AddHealthCheck returns it.
AddCheck(id, iv, to, mf) ==
    /\ Alive
    /\ IsShared
    /\ Len(checks) < MaxChecks
    /\ Len(disp) < MaxChecks
    /\ LET err == AddCheckErr(id, iv, to)
           interval == EffectiveInterval(iv)
           timeout == EffectiveTimeout(to)
           maxFailures == EffectiveMaxFailures(mf)
       IN  IF err # "nil"
             THEN /\ exit' = IF HasStart THEN <<ExitFail>> ELSE exit
                  /\ termlogCloseCalls' = IF HasStart
                                             THEN termlogCloseCalls + 1
                                             ELSE termlogCloseCalls
                  /\ UNCHANGED <<checks, status, disp>>
             ELSE /\ UNCHANGED <<exit, termlogCloseCalls>>
                  /\ IF HasStart
                       THEN /\ checks' = Append(checks,
                                   [ID |-> id, Interval |-> interval,
                                    Timeout |-> timeout,
                                    MaxFailures |-> maxFailures])
                            /\ UNCHANGED <<status, disp>>
                       ELSE /\ status' =
                                   [c \in DOMAIN status \cup {id} |->
                                       IF c = id
                                         THEN NewCheckStatus(mf)
                                         ELSE status[c]]
                            /\ disp' = Append(disp,
                                   NewDispatcher(id, interval, timeout))
                            /\ UNCHANGED checks
    /\ UNCHANGED <<apiVars, lifeVars, orphaned, ctx, cancelCalls, hStarted, hCause,
                   streak, recovered>>

\* Start(logger), called by serve(): every collected check gets a fresh
\* status entry under its ID and a dispatcher.  A second call returns at once.
Start ==
    /\ Alive
    /\ HasStart
    /\ ~hStarted
    /\ hStarted' = TRUE
    /\ LET ids == {checks[i].ID : i \in 1..Len(checks)}
           last(id) == CHOOSE i \in 1..Len(checks) :
                           /\ checks[i].ID = id
                           /\ \A j \in (i + 1)..Len(checks) : checks[j].ID # id
       IN  status' = [c \in DOMAIN status \cup ids |->
                         IF c \in ids
                           THEN NewCheckStatus(checks[last(c)].MaxFailures)
                           ELSE status[c]]
    /\ disp' = disp \o [i \in 1..Len(checks) |->
                   NewDispatcher(checks[i].ID, checks[i].Interval,
                                 checks[i].Timeout)]
    /\ UNCHANGED <<apiVars, lifeVars, termlogCloseCalls, orphaned, ctx, cancelCalls, exit, checks, hCause, streak,
                   recovered>>

\* dispatcher: case <-t.C.  The select takes this case whenever a tick is
\* due, also when h.ctx.Done() is ready too; runCheck then derives the
\* invocation's context from a context that is already cancelled.
DispatcherTick(d) ==
    /\ Alive
    /\ disp[d].st = "tick"
    /\ disp' = [disp EXCEPT ![d].st = IF HDone THEN "runDead" ELSE "run"]
    /\ UNCHANGED <<apiVars, lifeVars, termlogCloseCalls, orphaned, ctx, cancelCalls, exit, hStarted, checks, status,
                   hCause, streak, recovered>>

\* dispatcher: case <-h.ctx.Done(): return.
DispatcherCtxDone(d) ==
    /\ Alive
    /\ disp[d].st = "tick"
    /\ HDone
    /\ disp' = [disp EXCEPT ![d].st = "exited"]
    /\ UNCHANGED <<apiVars, lifeVars, termlogCloseCalls, orphaned, ctx, cancelCalls, exit, hStarted, checks, status,
                   hCause, streak, recovered>>

\* runCheck waiting for the function's result only.
CanEndOnResult(d, k) == k \in {"nil", "err", "deadline", "panic"}

\* Which ways an invocation can end for runCheck's select.  The invocation's
\* context is done with cause errTimeout only if its parent was not
\* cancelled when it was derived, and with the parent's cause once the
\* parent is cancelled.
CanEnd(d, k) ==
    CASE k \in {"nil", "err", "deadline", "panic"} -> TRUE
      [] k = "timeout" -> disp[d].st = "run"
      [] k = "canceled" -> hCause = "canceled"
      [] k = "closed" -> hCause = "closed"

\* The ways an invocation ends without the function having returned.
CtxDoneOutcomes == {"timeout", "canceled", "closed"}

\* runCheck's select with a timeout that is not recorded.
RunCheckResultDropsTimeout(k) ==
    CASE k = "nil" -> "nil"
      [] k = "err" -> "error"
      [] k = "deadline" -> "timed out"
      [] k = "timeout" -> "unrecorded"
      [] k = "canceled" -> "context canceled"
      [] k = "closed" -> "unrecorded"

\* runCheck's select: the result to record, "unrecorded" for return true.
RunCheckResult(k) ==
    CASE k = "nil" -> "nil"
      [] k = "err" -> "error"
      [] k = "deadline" -> "timed out"
      [] k = "timeout" -> "timed out"
      [] k = "canceled" -> "context canceled"
      [] k = "closed" -> "unrecorded"

\* The comparison that ends a dispatcher: Failures >= MaxFailures in the
\* handler with Start, Failures > MaxFailures in the other.
ThresholdReached(f, m) == IF HasStart THEN f >= m ELSE f > m

\* runCheck after its select without the reset of Failures on success.
RecordResultKeepsCount(c, r) ==
    IF r = "nil"
      THEN [status |-> [c EXCEPT !.Err = "nil"], failed |-> FALSE]
      ELSE [status |-> [c EXCEPT !.Err = r, !.Failures = c.Failures + 1],
            failed |-> ThresholdReached(c.Failures + 1, c.MaxFailures)]

\* runCheck after its select: the new checkStatus and the value returned.
RecordResult(c, r) ==
    IF r = "nil"
      THEN [status |-> [c EXCEPT !.Err = "nil", !.Failures = 0],
            failed |-> FALSE]
      ELSE [status |-> [c EXCEPT !.Err = r, !.Failures = c.Failures + 1],
            failed |-> ThresholdReached(c.Failures + 1, c.MaxFailures)]

\* The invocation ended because its context was done: the function has not
\* returned, and nothing waits for it.
LeavesFnRunning(k) == k \in {"timeout", "canceled", "closed"}

\* runCheck returns to the dispatcher, which returns too if it failed.  The
\* function runs in a goroutine without recover(): a panic in it ends the
\* process.
RunCheckReturn(d, k) ==
    /\ Alive
    /\ disp[d].st \in {"run", "runDead"}
    /\ CanEnd(d, k)
    /\ IF k = "panic"
         THEN /\ exit' = <<ExitPanic>>
              /\ UNCHANGED <<status, disp, streak, recovered, orphaned>>
         ELSE /\ UNCHANGED exit
              /\ orphaned' = (orphaned \/ LeavesFnRunning(k))
              /\ LET id == disp[d].ID
                     r == RunCheckResult(k)
                     rec == RecordResult(status[id], r)
                 IN  IF r = "unrecorded"
                       THEN /\ disp' = [disp EXCEPT ![d].st = "exited"]
                            /\ UNCHANGED <<status, streak, recovered>>
                       ELSE /\ status' = [status EXCEPT ![id] = rec.status]
                            /\ disp' = [disp EXCEPT
                                           ![d].st = IF rec.failed
                                                       THEN "exited"
                                                       ELSE "tick"]
                            /\ streak' = [streak EXCEPT
                                             ![id] = IF r = "nil" THEN 0 ELSE @ + 1]
                            /\ recovered' =
                                   (recovered
                                      \/ (r = "nil" /\ status[id].Failures > 0))
    /\ UNCHANGED <<apiVars, lifeVars, termlogCloseCalls, ctx, cancelCalls, hStarted,
                   checks, hCause>>

\* Handler.Close: h.cancel(errClosed).  The first cancellation sets the cause.
Close ==
    /\ Alive
    /\ IsShared
    /\ hCause = "none"
    /\ hCause' = "closed"
    /\ UNCHANGED <<apiVars, lifeVars, termlogCloseCalls, orphaned, ctx, cancelCalls, exit, hStarted, checks, status,
                   disp, streak, recovered>>

\* srvCancel() / s.cancel() of the coordinator, seen from the handler: its
\* context is cancelled through its parent, with cause context.Canceled.
SrvCancel ==
    /\ Alive
    /\ IsShared
    /\ ~ctx
    /\ ctx' = CancelFunc(ctx)
    /\ cancelCalls' = cancelCalls + 1
    /\ hCause' = IF hCause = "none" THEN "canceled" ELSE hCause
    /\ UNCHANGED <<apiVars, lifeVars, termlogCloseCalls, orphaned, exit, hStarted, checks, status, disp, streak,
                   recovered>>

\* ServeHTTP's test of one status entry without the case of equality.
CheckFailedAbove(c) == c.Failures > c.MaxFailures

\* ServeHTTP's test of one status entry.
CheckFailed(c) == c.Failures >= c.MaxFailures

\* ServeHTTP: the aggregate status /livez answers with.
ServeHTTP ==
    IF \E id \in DOMAIN status : CheckFailed(status[id])
      THEN "NOT_OK"
      ELSE "OK"

\* SetFailed(msg): the entry "srv" of the status map is replaced by a failed
\* one, whatever was registered or recorded under that ID.
SetFailed ==
    /\ Alive
    /\ IsShared
    /\ status' = [c \in DOMAIN status \cup {SrvID} |->
                     IF c = SrvID
                       THEN [Failures |-> 1, MaxFailures |-> 1, Err |-> "msg"]
                       ELSE status[c]]
    /\ UNCHANGED <<apiVars, lifeVars, termlogCloseCalls, orphaned, ctx, cancelCalls, exit,
                   hStarted, checks, disp, hCause, streak, recovered>>

\* Registration on its own: AddCheck with every combination of options,
\* Start, and the cancellation of the handler's context.
RegNext ==
    \/ \E id \in CheckIDs, iv \in Durations, to \in Durations,
          mf \in MaxFailuresOpts : AddCheck(id, iv, to, mf)
    \/ Start
    \/ Close
    \/ SrvCancel

RegSpec == Init /\ [][RegNext]_vars

\* The handler at work.  Checks are registered with the interval and the
\* timeout of examples/health, so that the tests of AddCheck on them pass,
\* and their functions do not panic.
HealthNext ==
    \/ \E id \in CheckIDs, mf \in MaxFailuresOpts :
          AddCheck(id, ExampleInterval, ExampleTimeout, mf)
    \/ Start
    \/ \E d \in 1..Len(disp) : DispatcherTick(d)
    \/ \E d \in 1..Len(disp) : DispatcherCtxDone(d)
    \/ \E d \in 1..Len(disp), k \in CheckOutcomes \ {"panic"} :
          RunCheckReturn(d, k)
    \/ Close
    \/ SrvCancel

HealthSpec == Init /\ [][HealthNext]_vars

\* The handler at work on checks that tolerate MaxFailuresOpt failures.
DispatchNext ==
    \/ \E id \in CheckIDs :
          AddCheck(id, ExampleInterval, ExampleTimeout, MaxFailuresOpt)
    \/ Start
    \/ \E d \in 1..Len(disp) : DispatcherTick(d)
    \/ \E d \in 1..Len(disp) : DispatcherCtxDone(d)
    \/ \E d \in 1..Len(disp), k \in CheckOutcomes \ {"panic"} :
          RunCheckReturn(d, k)
    \/ Close
    \/ SrvCancel

\* The handler's goroutines under the Go scheduler.  A select chooses at
\* random among the cases that are ready, so a dispatcher whose ctx.Done()
\* case is ready again and again takes it in the end; the context of an
\* invocation is done when its timer fires or its parent is cancelled, and
\* runCheck's select then has a ready case.  A dispatcher exits once, so
\* fairness for the dispatchers together is fairness for each.  Nothing is
\* assumed of the check functions.
FairHealthSpec ==
    /\ Init
    /\ [][DispatchNext]_vars
    /\ SF_vars(\E d \in 1..Len(disp) : DispatcherCtxDone(d))
    /\ WF_vars(\E d \in 1..Len(disp), k \in CtxDoneOutcomes :
                  RunCheckReturn(d, k))

\* The handler with SetFailed in use: checks may be registered under the ID
\* SetFailed writes to, and a check function may panic.
FailNext ==
    \/ \E id \in {"a", SrvID}, mf \in MaxFailuresOpts :
          AddCheck(id, ExampleInterval, ExampleTimeout, mf)
    \/ Start
    \/ SetFailed
    \/ \E d \in 1..Len(disp) : DispatcherTick(d)
    \/ \E d \in 1..Len(disp) : DispatcherCtxDone(d)
    \/ \E d \in 1..Len(disp), k \in CheckOutcomes : RunCheckReturn(d, k)
    \/ Close

FailSpec == Init /\ [][FailNext]_vars

----
\* The readiness handler (defaultReadinessHandler) of the init variant:
\* srvInit marks it ready unless the option withStartup is given, Wait calls
\* Started(), shutdownWatcher closes it.  Started and UnavailableWhile are
\* called by goroutines of the program at any time.

\* Started() -> setReady(): rh.isReady.Load().  When it gives true setReady
\* returns false and nothing changes; otherwise the caller goes on to the
\* Store, and other goroutines run in between.
StartedLoad(p) ==
    /\ Alive
    /\ IsInit
    /\ rpc[p] = "idle"
    /\ rpc' = [rpc EXCEPT ![p] = IF isReady THEN "idle" ELSE "store"]
    /\ UNCHANGED <<apiVars, healthVars, instrVars, isReady, isClosed, outstanding,
                   setReadyTrue, variant, mpc, wpc, setupVars, jobVars, sigVars,
                   ctx, cancelCalls, trigger, chainVars, waitErr,
                   shutdownComplete, exit, envVars>>

\* setReady(): rh.isReady.Store(true); return true.  Started() then logs
\* "service has started".
StartedStore(p) ==
    /\ Alive
    /\ IsInit
    /\ rpc[p] = "store"
    /\ isReady' = TRUE
    /\ setReadyTrue' = setReadyTrue + 1
    /\ rpc' = [rpc EXCEPT ![p] = "idle"]
    /\ UNCHANGED <<apiVars, healthVars, instrVars, isClosed, outstanding, variant, mpc,
                   wpc, setupVars, jobVars, sigVars, ctx, cancelCalls, trigger,
                   chainVars, waitErr, shutdownComplete, exit, envVars>>

\* UnavailableWhile(reason, f) up to the call of f: add().
UnavailableWhileCall(p) ==
    /\ Alive
    /\ IsInit
    /\ rpc[p] = "idle"
    /\ outstanding < MaxOutstanding
    /\ outstanding' = outstanding + 1
    /\ rpc' = [rpc EXCEPT ![p] = "f"]
    /\ UNCHANGED <<apiVars, healthVars, instrVars, isReady, isClosed, setReadyTrue,
                   variant, mpc, wpc, setupVars, jobVars, sigVars, ctx,
                   cancelCalls, trigger, chainVars, waitErr, shutdownComplete,
                   exit, envVars>>

\* f ends.  When it returns, sub() runs and UnavailableWhile returns f's
\* result.  sub() is not deferred: when f panics the panic leaves
\* UnavailableWhile without it.  What the panic does further up is the
\* caller's matter: it is recovered there, or it ends the process.
UnavailableWhileReturn(p, k) ==
    /\ Alive
    /\ IsInit
    /\ rpc[p] = "f"
    /\ rpc' = [rpc EXCEPT ![p] = "idle"]
    /\ IF k = "panic"
         THEN /\ UNCHANGED outstanding
              /\ \E callerRecovers \in BOOLEAN :
                     exit' = IF callerRecovers THEN exit ELSE <<ExitPanic>>
         ELSE /\ outstanding' = outstanding - 1
              /\ UNCHANGED exit
    /\ UNCHANGED <<apiVars, healthVars, instrVars, isReady, isClosed, setReadyTrue,
                   variant, mpc, wpc, setupVars, jobVars, sigVars, ctx,
                   cancelCalls, trigger, chainVars, waitErr, shutdownComplete,
                   envVars>>

\* readinessHandler.ServeHTTP without the test of the counter.
ReadinessServeHTTPIgnoresOutstanding ==
    IF isClosed \/ ~isReady THEN StatusServiceUnavailable ELSE StatusOK

\* readinessHandler.ServeHTTP: the status /readyz answers with.
ReadinessServeHTTP ==
    IF isClosed \/ outstanding > 0 \/ ~isReady
      THEN StatusServiceUnavailable
      ELSE StatusOK

\* The readiness handler in use, with Wait and the shutdownWatcher around it.
ReadyNext ==
    \/ \E p \in Callers : StartedLoad(p)
    \/ \E p \in Callers : StartedStore(p)
    \/ \E p \in Callers : UnavailableWhileCall(p)
    \/ \E p \in Callers, k \in FKinds : UnavailableWhileReturn(p, k)
    \/ CallWait
    \/ WaitSetReady
    \/ EgWaitReturn
    \/ WatcherCtxDone

ReadySpec == Init /\ [][ReadyNext]_vars

----
\* Properties.

NoDuplicates(q) == \A a, b \in 1..Len(q) : a # b => q[a] # q[b]
NoPanicUpTo(i) == \A j \in 1..i : handlers[j] # "panic"
NormalExit == exit \in {<<ExitOK>>, <<ExitFail>>}

\* C1: in every variant the handlers are invoked one at a time, in
\* registration order: at most one handler executes at any moment, the
\* invocations so far are handlers 1, 2, ..., k in that order, and a handler
\* is executing only when every handler before it has returned or panicked.
C1_InOrderOneAtATime ==
    /\ Cardinality(hRun) <= 1
    /\ \A p \in 1..Len(started) : started[p] = p
    /\ \A i \in hRun : \A j \in 1..(i - 1) : j \in finished

C1_Witness ==
    /\ IsInit
    /\ Len(started) = 3
    /\ hRun = {3}
    /\ finished = {1, 2}

\* C2: when handler k panics the panic is recovered and recorded (didPanic),
\* every handler before k has been invoked and has ended, no handler after k
\* is ever invoked, and those the loop has passed are logged as skipped.
C2_PanicSkipsTheRest ==
    \A k \in 1..Len(handlers) :
        handlers[k] = "panic" =>
            /\ didPanic
            /\ \A j \in 1..(k - 1) : j \in Range(started) /\ j \in finished
            /\ \A j \in (k + 1)..Len(handlers) :
                   /\ j \notin Range(started)
                   /\ handlers[j] = "none"
                   /\ hIdx > j => j \in skipped

C2_Witness ==
    /\ IsShared
    /\ handlers = <<"ok", "panic", "none">>
    /\ skipped = {3}
    /\ started = <<1, 2>>

\* C3: in shutdown() (global, instance) a handler that returns an error
\* without panicking does not stop the chain: the handler after it is still
\* invoked, at the end every handler has been invoked unless one panicked,
\* and the exit code is then 1.
C3_ErrorDoesNotStopChain ==
    IsShared =>
        /\ didPanic => \E i \in 1..Len(handlers) : handlers[i] = "panic"
        /\ \A i \in 1..(Len(handlers) - 1) :
               (handlers[i] = "err" /\ NoPanicUpTo(i) /\ hIdx > i + 1)
                   => (i + 1) \in Range(started)
        /\ (wpc = "done" /\ NoPanicUpTo(Len(handlers)))
               => Range(started) = 1..Len(handlers)
        /\ (wpc = "done" /\ \E i \in 1..Len(handlers) : handlers[i] = "err")
               => exit = <<ExitFail>>

C3_Witness ==
    /\ IsShared
    /\ wpc = "done"
    /\ handlers = <<"err", "ok", "ok">>
    /\ started = <<1, 2, 3>>
    /\ exit = <<ExitFail>>

\* C4: the lifecycle context is cancelled before the first handler is
\* invoked, whatever the trigger; once cancelled it stays cancelled, the
\* recorded trigger never changes, and a further call of the cancel function
\* changes neither the context nor the coordinator's state.
C4_CancelledOnceBeforeHandlers ==
    /\ []((started # <<>> \/ wpc \in {"chain", "done"}) => ctx)
    /\ [][ctx => ctx']_vars
    /\ [][trigger # "none" => trigger' = trigger]_vars
    /\ [][(ctx /\ cancelCalls' > cancelCalls)
            => UNCHANGED <<ctx, trigger, wpc, chainVars>>]_vars

C4_Witness ==
    /\ cancelCalls >= 2
    /\ started # <<>>
    /\ sigG = "second"
    /\ trigger = "job"

\* C5: once the job runner has delivered its result and every job returned
\* nil, the coordinator has left Running (it then runs the handlers and
\* exits with 0).
C5_AllNilLeavesRunning ==
    (/\ IsShared
     /\ Len(jobSt) >= 1
     /\ waiter = "sent"
     /\ \A j \in Jobs : jobSt[j] = "nil")
        => wpc # "watch"

\* C6: when shutdown was triggered by a failed job, the exit code of
\* shutdown() is 1.
C6_JobErrorExitsWithOne ==
    (/\ IsShared
     /\ trigger = "job"
     /\ egErr # 0
     /\ NormalExit)
        => exit = <<ExitFail>>

\* C7: once a job has returned an error the coordinator begins shutdown,
\* whether or not the other jobs ever return.
C7_FailureStartsShutdown ==
    (\E j \in Jobs : jobSt[j] = "err") ~> (~Alive \/ wpc \in {"chain", "done"})

C9_TwoInterruptsForceExit ==
    (/\ IsShared
     /\ trigger = "job"
     /\ intrInChain >= 2
     /\ ~Alive)
        => exit = <<ExitForced>>

\* C10: whatever triggers arrive and however they interleave, the handler
\* chain is entered at most once and each registered handler is invoked at
\* most once.
C10_ChainEnteredOnce ==
    /\ chainStarts <= 1
    /\ wpc \in {"chain", "done"} => chainStarts = 1
    /\ NoDuplicates(started)
    /\ Len(started) <= Len(handlers)

C10_Witness ==
    /\ IsShared
    /\ trigger = "signal"
    /\ waiter = "waiting"
    /\ Len(jobSt) = 2
    /\ EgWaitDone
    /\ egErr # 0
    /\ chainStarts = 1
    /\ started = <<1, 2>>

JobsOutstanding == \E j \in Jobs : jobSt[j] \in {"idle", "running"}
NoJobFailed == \A j \in Jobs : jobSt[j] \notin {"err", "panic"}

\* C11: in the global and instance variants, when the process has run its
\* shutdown to the end (exit code 0 or 1) and every job had returned, so that
\* eg.Wait() had produced its result, that result has been handed to the
\* coordinator: the goroutine's send on the job-result channel completed.
C11_ResultDelivered ==
    (/\ IsShared
     /\ Len(jobSt) >= 1
     /\ EgWaitDone
     /\ NormalExit)
        => waiter = "sent"

\* C12: while a job is outstanding, no job has failed and no interrupt was
\* sent, nothing cancels the lifecycle context; and as long as it is not
\* cancelled the service is Running: the coordinator has not entered the
\* chain, no handler has been invoked and the process has not exited.
C12_StaysRunning ==
    /\ []((JobsOutstanding /\ NoJobFailed /\ nIntr = 0 /\ ~ctx)
            => (Alive /\ started = <<>> /\ hRun = {} /\ wpc \in {"off", "watch"}))
    /\ [][(/\ JobsOutstanding /\ NoJobFailed /\ nIntr = 0 /\ ~ctx
           /\ JobsOutstanding' /\ NoJobFailed' /\ nIntr' = 0)
            => (~ctx' /\ wpc' \in {"off", "watch"})]_vars

C12_Witness ==
    /\ jobSt = <<"nil", "running">>
    /\ mpc \in {"serving", "waitEg"}
    /\ wpc = "watch"
    /\ Len(handlers) >= 1
    /\ nIntr = 0
    /\ ~ctx

Registered == {checks[i].ID : i \in 1..Len(checks)} \cup DOMAIN status
RecordsFailure == CheckOutcomes \ {"nil", "closed"}

\* C13: every check AddCheck has accepted, whether still collected or
\* already dispatched, has an interval greater than its timeout, both taken
\* after the defaults were applied.
C13_IntervalAboveTimeout ==
    /\ \A i \in 1..Len(checks) : checks[i].Interval > checks[i].Timeout
    /\ \A d \in 1..Len(disp) : disp[d].Interval > disp[d].Timeout

\* C14: AddCheck of a check with a new ID and neither Interval nor Timeout
\* set, on a handler that is not closed, returns nil and registers the check
\* with the default interval and the default timeout.
C14_DefaultsAccepted ==
    [][\A id \in CheckIDs, mf \in MaxFailuresOpts :
          (~HDone /\ id \notin Registered /\ AddCheck(id, 0, 0, mf))
              => /\ AddCheckErr(id, 0, 0) = "nil"
                 /\ IF HasStart
                      THEN /\ Len(checks') = Len(checks) + 1
                           /\ checks'[Len(checks')].Interval = DefaultInterval
                           /\ checks'[Len(checks')].Timeout = DefaultTimeout
                      ELSE /\ Len(disp') = Len(disp) + 1
                           /\ disp'[Len(disp')].Interval = DefaultInterval
                           /\ disp'[Len(disp')].Timeout = DefaultTimeout]_vars

\* C15: /livez goes from OK to NOT_OK only in a step that records a failed
\* invocation of a check: registering a check, or starting the handler,
\* leaves it OK.
C15_NotOkOnlyByFailure ==
    [][(ServeHTTP = "OK" /\ ServeHTTP' = "NOT_OK")
          => \E d \in 1..Len(disp), k \in RecordsFailure :
                 RunCheckReturn(d, k)]_vars

\* C16: an otherwise valid AddCheck with an ID that was accepted before, on
\* a handler that is not closed, returns the duplicate error and leaves the
\* collected checks, the status entries and the dispatchers as they were.
C16_DuplicateRejected ==
    [][\A id \in CheckIDs, iv \in Durations, to \in Durations,
          mf \in MaxFailuresOpts :
          (/\ ~HDone
           /\ iv > to
           /\ id \in Registered
           /\ AddCheck(id, iv, to, mf))
              => /\ AddCheckErr(id, iv, to) = "duplicate"
                 /\ UNCHANGED <<checks, status, disp>>]_vars

\* C17: for a status entry with MaxFailures = M >= 1, /livez counts the check
\* as failed exactly when M or more failed invocations have been recorded
\* since the last recorded success: not after the first M-1, and from the
\* M-th on; and /livez answers NOT_OK exactly when some entry counts as failed.
C17_NotOkAtMaxFailures ==
    /\ \A id \in DOMAIN status :
           status[id].MaxFailures >= 1
               => (CheckFailed(status[id])
                      <=> streak[id] >= status[id].MaxFailures)
    /\ (\A id \in DOMAIN status : status[id].MaxFailures >= 1)
           => (ServeHTTP = "NOT_OK"
                  <=> \E id \in DOMAIN status :
                          streak[id] >= status[id].MaxFailures)

C17_Witness ==
    /\ DOMAIN status = {"a"}
    /\ status["a"].MaxFailures = 2
    /\ streak["a"] = 2
    /\ ServeHTTP = "NOT_OK"

\* C18: in the handler of the instance variant, a check with MaxFailures >= 1
\* that /livez counts as failed is counted as failed in every later state.
C18_NoRecovery ==
    [][\A id \in DOMAIN status :
          (/\ variant = "instance"
           /\ status[id].MaxFailures >= 1
           /\ CheckFailed(status[id]))
              => CheckFailed(status'[id])]_vars

\* C19: for a check with MaxFailures = M >= 2, while fewer than M failed
\* invocations have been recorded since the last success /livez does not
\* count the check as failed; and an invocation that returns nil sets
\* Failures to 0 and Err to nil and leaves the dispatcher running.
C19_SuccessResets ==
    /\ [](\A id \in DOMAIN status :
             (status[id].MaxFailures >= 2
                 /\ streak[id] < status[id].MaxFailures)
                 => ~CheckFailed(status[id]))
    /\ [][\A d \in 1..Len(disp) :
             RunCheckReturn(d, "nil")
                 => /\ status'[disp[d].ID].Failures = 0
                    /\ status'[disp[d].ID].Err = "nil"
                    /\ disp'[d].st = "tick"]_vars

C19_Witness ==
    /\ HasStart
    /\ DOMAIN status = {"a"}
    /\ Len(disp) = 1
    /\ recovered
    /\ status["a"] = [Failures |-> 0, MaxFailures |-> 2, Err |-> "nil"]
    /\ disp[1].st = "tick"
    /\ ServeHTTP = "OK"

\* C20: an invocation that began before the lifecycle context was cancelled
\* and ends because of that cancellation leaves the status entries as they
\* were.
C20_CancelNotRecorded ==
    [][\A d \in 1..Len(disp) :
          (/\ disp[d].st = "run"
           /\ hCause = "canceled"
           /\ RunCheckReturn(d, "canceled"))
              => UNCHANGED status]_vars

\* C21: when the timeout of an invocation expires before the check function
\* has returned, runCheck returns without the function (the dispatcher goes
\* on or exits, the function is left running), the error recorded for the
\* check is the timeout error, and its count of consecutive failures has
\* grown by exactly one.
C21_TimeoutRecorded ==
    [][\A d \in 1..Len(disp) :
          RunCheckReturn(d, "timeout") =>
              /\ disp'[d].st \in {"tick", "exited"}
              /\ orphaned'
              /\ status'[disp[d].ID].Err = "timed out"
              /\ status'[disp[d].ID].Failures =
                     status[disp[d].ID].Failures + 1]_vars

C21_Witness ==
    /\ hCause = "none"
    /\ orphaned
    /\ \E d \in 1..Len(disp) :
           /\ disp[d].st = "tick"
           /\ status[disp[d].ID].Err = "timed out"
           /\ status[disp[d].ID].Failures = 2

\* C22: once the handler's context is cancelled (srvCancel or Close) no
\* dispatcher enters runCheck any more, so no new invocation of a check
\* function starts, also when a tick is pending at that moment.
C22_NoInvocationAfterCancel ==
    [][\A d \in 1..Len(disp) : HDone => ~DispatcherTick(d)]_vars

\* C23: once SetFailed(msg) has been called /livez answers NOT_OK from then
\* on: no step taken while the failure of SetFailed is on record (no
\* registration under any ID, no Start, no result of an invocation) leads to
\* a state in which /livez answers OK.
C23_FailedStaysNotOk ==
    [][(SrvID \in DOMAIN status /\ status[SrvID].Err = "msg")
          => ServeHTTP' = "NOT_OK"]_vars

\* C24: a panic of a job function is caught where the job is run: the job
\* counts as failed (the errgroup has an error on record) and the process
\* does not end with the status of an unrecovered panic.
C24_PanicBecomesFailure ==
    \A j \in Jobs :
        jobSt[j] = "panic" => (egErr # 0 /\ exit # <<ExitPanic>>)

\* C25: however the calls of Started() / setReady() interleave, exactly one
\* of them returns true: none while the gate is not marked ready, one from
\* then on.
C25_OneCallReturnsTrue ==
    setReadyTrue = IF isReady THEN 1 ELSE 0

\* C26: when no call of UnavailableWhile is in progress the outstanding
\* counter is back at the value it has without any call, zero, also after
\* calls whose f returned an error or panicked.
C26_CounterRestored ==
    (Alive /\ \A p \in Callers : rpc[p] # "f") => outstanding = 0

\* C27: /readyz answers 503 exactly when the gate is closed, or the
\* outstanding counter is above zero, or the gate has not been marked ready,
\* and 200 otherwise.
C27_UnavailableIff ==
    /\ ReadinessServeHTTP \in {StatusOK, StatusServiceUnavailable}
    /\ ReadinessServeHTTP = StatusServiceUnavailable
           <=> (isClosed \/ outstanding > 0 \/ ~isReady)

C27_Witness ==
    /\ isReady
    /\ ~isClosed
    /\ outstanding = 1
    /\ \E p \in Callers : rpc[p] = "f"
    /\ ReadinessServeHTTP = StatusServiceUnavailable

\* C28: in the instance variant /startupz answers 503 as long as Start() has
\* not finished setting up and launching the jobs, and 200 from then on: it
\* answers 200 only when no job is still waiting to be launched, and it
\* answers 200 in every state after the launch.
C28_StartupAfterLaunch ==
    variant = "instance" =>
        /\ StartupServeHTTP = StatusOK => \A j \in Jobs : jobSt[j] # "idle"
        /\ mpc = "serving" => StartupServeHTTP = StatusOK

\* C29: when shutdown() (global, instance) has run to its end and the process
\* has exited with code 0 or 1, the termination log file has been closed
\* exactly once.
C29_TermlogClosedOnce ==
    (IsShared /\ wpc = "done" /\ NormalExit) => TermlogFileCloses = 1

\* C30: in the init variant the process exits with code 1 whenever a shutdown
\* handler has returned an error or panicked, also when every function
\* started with Go / Run returned nil.
C30_InitHandlerFailureExitsOne ==
    (IsInit /\ NormalExit
       /\ \E i \in 1..Len(handlers) : handlers[i] \in {"err", "panic"})
        => exit = <<ExitFail>>

\* C31: a second call of Serve() / Start() made after the first has started
\* the service does not block for good: once made it ends (warning and
\* return, ErrAlreadyStarted, or the end of the process).
C31_SecondServeReturns ==
    (lpc = "Serve") ~> (lpc # "Serve" \/ ~Alive)

\* C32: in the instance variant, once Start() has begun, no call of
\* AddShutdownHandlers or AddJobs changes the list of shutdown handlers or
\* the list of jobs.
C32_LateRegistrationRejected ==
    [][(variant = "instance" /\ MuHeld)
          => (handlers' = handlers /\ lateJobs' = lateJobs)]_vars

\* C33: in the Init/Go/Wait variant with no function started, Wait() gets
\* past eg.Wait() only after the lifecycle context was cancelled by an
\* interrupt; it does not begin the shutdown itself.
C33_WaitBlocksWithoutFunctions ==
    (IsInit /\ Len(jobSt) = 0 /\ mpc = "waitComplete") => trigger = "signal"

\* C34: once the handler's context is cancelled every dispatcher goroutine
\* exits, whether or not the check functions return.
C34_DispatchersExit ==
    HDone ~> ((\A d \in 1..Len(disp) : disp[d].st = "exited") \/ ~Alive)

\* C34: the context is cancelled while a dispatcher is inside runCheck, and
\* the dispatcher has exited without the function having returned.
C34_Witness ==
    /\ HDone
    /\ orphaned
    /\ Len(disp) > 0
    /\ \A d \in 1..Len(disp) : disp[d].st = "exited"

\* C35: in the handler with Start, every status entry has
\* 0 <= Failures <= max(1, MaxFailures), and an entry whose count of
\* failures has reached MaxFailures is not written again.
C35_FailuresBounded ==
    /\ [](HasStart =>
            \A id \in DOMAIN status :
                /\ 0 <= status[id].Failures
                /\ status[id].Failures
                     <= (IF status[id].MaxFailures > 1
                           THEN status[id].MaxFailures ELSE 1))
    /\ [][HasStart =>
            \A id \in DOMAIN status :
                (status[id].Failures > 0
                   /\ status[id].Failures >= status[id].MaxFailures)
                    => status'[id] = status[id]]_vars

\* C36: in the handler with Start, once Start has run, every check AddCheck
\* has accepted, before Start or after it, has a status entry and a
\* dispatcher.
C36_EveryCheckDispatched ==
    (HasStart /\ hStarted) =>
        \A i \in 1..Len(checks) :
            /\ checks[i].ID \in DOMAIN status
            /\ i <= Len(disp)
            /\ disp[i].ID = checks[i].ID

\* C37: when shutdown was triggered by an OS interrupt, no shutdown handler
\* is executing while a job function has not returned.
C37_HandlersAfterJobs ==
    (trigger = "signal" /\ hRun # {}) => ~JobsOutstanding

\* C38: in the Init/Go/Wait variant, when the process has ended after a single
\* OS interrupt, every function started with Go had returned nil or
\* context.Canceled and no shutdown handler had failed, the exit code is 0.
C38_CanceledExitsZero ==
    (/\ IsInit
     /\ nIntr = 1
     /\ trigger = "signal"
     /\ \A j \in Jobs : jobSt[j] \in {"nil", "canceled"}
     /\ \A i \in 1..NumHandlers : handlers[i] = "ok"
     /\ ~Alive)
        => exit = <<ExitOK>>

\* C39: a call of Declare() made after one that has declared the service
\* changes neither the declared service info nor the "service" attribute of
\* the logger.
C39_SecondDeclareIgnored ==
    [][didDeclare =>
          (srvInfo' = srvInfo /\ serviceAttrs' = serviceAttrs)]_vars

\* C40: a POST to the log level route that carries a boolean override
\* parameter and names no logger, so that it targets the root logger, is
\* answered with "override not supported for root logger" and leaves the
\* root logger's level and override flag as they were.
C40_RootOverrideRejected ==
    [][(\E q \in {"true", "false"}, body \in Bodies, readErr \in ReadErrs :
           RouteLevel(RootName, "POST", q, body, readErr))
          => /\ written'[1] = "override not supported for root logger"
             /\ rootHandler' = rootHandler]_vars

====
